---- MODULE Spec2Model ----
(***************************************************************************)
(* Model of the SWE artifact pipeline DAG (swe_artifact_pipeline.py) and   *)
(* its operators: the transform operators that create artifacts and seed   *)
(* approvals, the ApprovalOperator quorum checks and out-of-band           *)
(* stakeholder decisions made through ManualApprovalOperator.              *)
(*                                                                         *)
(* Every SupabaseHook method runs its own Node.js process, so every store  *)
(* call is one step; a call returns, exits non-zero before committing, or  *)
(* commits and then exits non-zero.  Store records are kept as sequences;  *)
(* an id is the index in the table.  An operator's artifact_id is the text *)
(* handed to the Node.js query (str(artifact_id)).                         *)
(***************************************************************************)
EXTENDS Integers, Sequences, FiniteSets, TLC

\* Bounds of the model
MaxDec == 2
MaxFail == 1

\* Airflow default_args: 'retries': 1, i.e. two tries per task
Retries == 1

Stakeholders == 1..5
NoComment == "none"
Comments == {NoComment, "c"}
ReqChoices == {1, 2}

Types == {"PRD", "DDD_MODEL", "API_SPEC", "TYPESPEC", "ZOD_SCHEMA", "DB_SCHEMA"}

TransformTasks == {"create_prd", "process_prd", "generate_api",
                   "generate_typespec", "generate_schemas"}
CheckTasks == {"check_prd_approvals", "check_ddd_approvals", "check_api_approvals",
               "check_typespec_approvals", "check_zod_approvals", "check_db_approvals"}
Tasks == TransformTasks \cup CheckTasks \cup {"finalize_pipeline"}

\* Task dependencies (DAG lines 202-204, 242)
Upstream(t) ==
  CASE t = "create_prd"               -> {}
    [] t = "check_prd_approvals"      -> {"create_prd"}
    [] t = "process_prd"              -> {"check_prd_approvals"}
    [] t = "check_ddd_approvals"      -> {"process_prd"}
    [] t = "generate_api"             -> {"check_ddd_approvals"}
    [] t = "check_api_approvals"      -> {"generate_api"}
    [] t = "generate_typespec"        -> {"check_api_approvals"}
    [] t = "check_typespec_approvals" -> {"generate_typespec"}
    [] t = "generate_schemas"         -> {"check_typespec_approvals"}
    [] t = "check_zod_approvals"      -> {"generate_schemas"}
    [] t = "check_db_approvals"       -> {"generate_schemas"}
    [] t = "finalize_pipeline"        -> {"check_zod_approvals", "check_db_approvals"}

\* artifact_id arguments of the DAG's operators as written.  The operators
\* declare no template_fields (BaseOperator.template_fields is ()), so
\* Airflow never renders them and execute() receives the template text.
DagArg(t) ==
  CASE t = "check_prd_approvals"      -> "{{ task_instance.xcom_pull(task_ids=\"create_prd\") }}"
    [] t = "process_prd"              -> "{{ task_instance.xcom_pull(task_ids=\"create_prd\") }}"
    [] t = "check_ddd_approvals"      -> "{{ task_instance.xcom_pull(task_ids=\"process_prd\") }}"
    [] t = "generate_api"             -> "{{ task_instance.xcom_pull(task_ids=\"process_prd\") }}"
    [] t = "check_api_approvals"      -> "{{ task_instance.xcom_pull(task_ids=\"generate_api\") }}"
    [] t = "generate_typespec"        -> "{{ task_instance.xcom_pull(task_ids=\"generate_api\") }}"
    [] t = "check_typespec_approvals" -> "{{ task_instance.xcom_pull(task_ids=\"generate_typespec\") }}"
    [] t = "generate_schemas"         -> "{{ task_instance.xcom_pull(task_ids=\"generate_typespec\") }}"
    [] t = "check_zod_approvals"      -> "{{ task_instance.xcom_pull(task_ids=\"generate_schemas\", key=\"zod_schema_id\") }}"
    [] t = "check_db_approvals"       -> "{{ task_instance.xcom_pull(task_ids=\"generate_schemas\", key=\"db_schema_id\") }}"
    [] OTHER                          -> ""

\* Type the operator checks its input artifact against before transforming
InputType(t) ==
  CASE t = "process_prd"       -> "PRD"
    [] t = "generate_api"      -> "DDD_MODEL"
    [] t = "generate_typespec" -> "API_SPEC"
    [] t = "generate_schemas"  -> "TYPESPEC"

\* Store writes made by a transform operator, in code order.
\* [k |-> "art", type] creates an artifact with parentId = input artifact;
\* [k |-> "appr", ref, sh] creates a PENDING approval for the ref-th
\* artifact created by this execution.
ArtOp(ty) == [k |-> "art", type |-> ty, ref |-> 0, sh |-> 0]
ApprOp(r, s) == [k |-> "appr", type |-> "", ref |-> r, sh |-> s]

WritesSameApprover(t) ==
  CASE t = "create_prd"        -> <<ArtOp("PRD"), ApprOp(1, 1)>>
    [] t = "process_prd"       -> <<ArtOp("DDD_MODEL"), ApprOp(1, 1)>>
    [] t = "generate_api"      -> <<ArtOp("API_SPEC"), ApprOp(1, 1), ApprOp(1, 1)>>
    [] t = "generate_typespec" -> <<ArtOp("TYPESPEC"), ApprOp(1, 3)>>
    [] t = "generate_schemas"  -> <<ArtOp("ZOD_SCHEMA"), ArtOp("DB_SCHEMA"),
                                   ApprOp(1, 2), ApprOp(1, 2), ApprOp(2, 3), ApprOp(2, 5)>>

Writes(t) ==
  CASE t = "create_prd"        -> <<ArtOp("PRD"), ApprOp(1, 1)>>
    [] t = "process_prd"       -> <<ArtOp("DDD_MODEL"), ApprOp(1, 1)>>
    [] t = "generate_api"      -> <<ArtOp("API_SPEC"), ApprOp(1, 1), ApprOp(1, 2)>>
    [] t = "generate_typespec" -> <<ArtOp("TYPESPEC"), ApprOp(1, 3)>>
    [] t = "generate_schemas"  -> <<ArtOp("ZOD_SCHEMA"), ArtOp("DB_SCHEMA"),
                                   ApprOp(1, 2), ApprOp(1, 4), ApprOp(2, 3), ApprOp(2, 5)>>

ApplyOpChain(op, parent, arts, apprs, created) ==
  IF op.k = "art"
  THEN [arts |-> Append(arts, [type |-> op.type,
                               parentId |-> IF created = <<>> THEN parent
                                            ELSE created[Len(created)],
                               status |-> "PENDING_APPROVAL"]),
        apprs |-> apprs, created |-> Append(created, Len(arts) + 1)]
  ELSE [arts |-> arts,
        apprs |-> Append(apprs, [artifactId |-> created[op.ref], stakeholderId |-> op.sh,
                                 status |-> "PENDING", comment |-> NoComment]),
        created |-> created]

\* One store write: hook.create_artifact or hook.create_approval;
\* returns [arts, apprs, created]
ApplyOp(op, parent, arts, apprs, created) ==
  IF op.k = "art"
  THEN [arts |-> Append(arts, [type |-> op.type, parentId |-> parent,
                               status |-> "PENDING_APPROVAL"]),
        apprs |-> apprs, created |-> Append(created, Len(arts) + 1)]
  ELSE [arts |-> arts,
        apprs |-> Append(apprs, [artifactId |-> created[op.ref], stakeholderId |-> op.sh,
                                 status |-> "PENDING", comment |-> NoComment]),
        created |-> created]

VARIABLES
  artifacts,   \* artifacts table: [type, parentId, status]
  approvals,   \* approvals table: [artifactId, stakeholderId, status, comment]
  required,    \* requiredApprovals of the stage found for each type (NoStage: none)
  tstate,      \* Airflow task instance state
  tries,       \* tries started per task
  xcom,        \* return value of each task: <<>> none, <<id>>, <<zod, db>> or <<bool>>
  fails,       \* transient store failures so far: calls on valid input that exited non-zero
  exits,       \* Node.js processes (store calls) that exited non-zero so far
  dec,         \* ManualApprovalOperator executions
  conf,        \* dag_run.conf: whether prd_content is non-empty
  chk,         \* the running ApprovalOperator try
  tp,          \* the running transform try (pst: input status its read saw)
  arg,         \* artifact_id text each operator task passes to the store
  stg          \* stage resolution by scan

vars == <<artifacts, approvals, required, tstate, tries, xcom, fails, exits, dec,
          conf, chk, tp, arg, stg>>

DecIds == 1..MaxDec

\* res: "" running, "ok" returned, "raised", "none" (no record: warning, return)
DecInit == [pc |-> "idle", art |-> 0, sh |-> 0, approve |-> TRUE, comment |-> NoComment,
            apid |-> 0, seen |-> "", found |-> "", res |-> ""]

ChkIdle == [t |-> "", pc |-> "idle", n |-> 0]

TpIdle == [t |-> "", pc |-> "idle", k |-> 0, created |-> <<>>, pst |-> ""]

\* Orders scanned for a stage: for i in range(6)
ScanLimit == 6
MaxOrder == 7
StgInit == [tbl |-> [i \in 0..MaxOrder |-> ""], ty |-> "", res |-> -1, done |-> FALSE]

NoStage == -1

(***************************************************************************)
(* Store calls and Airflow tries                                           *)
(***************************************************************************)
\* Outcomes of a write: it returns, fails before committing, or commits and
\* then exits non-zero; of a read: it returns or fails.
CallOutcomes(mf) == IF fails < mf THEN {"ok", "fail", "lost"} ELSE {"ok"}
ReadOutcomes(mf) == IF fails < mf THEN {"ok", "fail"} ELSE {"ok"}

\* str(None), what finalize_pipeline's key pulls hand to get_artifact
FinalizeArg == "None"

\* An unrendered template text or "None" as artifact_id: the query rejects
\* it and the Node.js script always exits non-zero ("exit"), whatever the
\* store holds.
NotAnId(x) == x \in ({DagArg(t) : t \in Tasks} \ {""}) \cup {FinalizeArg}

\* Outcomes of the reads a try makes on its artifact_id text
ArgReadOutcomes(x, mf) == IF NotAnId(x) THEN {"exit"} ELSE ReadOutcomes(mf)

\* "fail"/"lost" are transient failures; every outcome but "ok" is a
\* non-zero exit, after which the hook raises
Counted(o) ==
  /\ fails' = IF o \in {"fail", "lost"} THEN fails + 1 ELSE fails
  /\ exits' = IF o = "ok" THEN exits ELSE exits + 1

\* get_artifact(artifact_id): the query finds a row only for the decimal id
\* of an existing artifact; an unknown id returns null (the operator raises
\* ValueError) and a template text makes the query itself fail.
Found(x) == \E i \in 1..Len(artifacts) : ToString(i) = x

IdOf(x) == CHOOSE i \in 1..Len(artifacts) : ToString(i) = x

\* Airflow: a try may start when the task is queued and, in the DAG, its
\* upstream tasks succeeded (trigger rule all_success)
Ready(t, dag) ==
  /\ tstate[t] \in {"none", "up_for_retry"}
  /\ dag => \A u \in Upstream(t) : tstate[u] = "success"

RaiseNoRetry(t, n) == tstate' = [tstate EXCEPT ![t] = "failed"]

\* The n-th try raised: up_for_retry while retries remain, else failed
Raise(t, n) == tstate' = [tstate EXCEPT ![t] = IF n <= Retries THEN "up_for_retry" ELSE "failed"]

\* Airflow scheduler: a task whose upstream failed becomes upstream_failed
Propagate ==
  /\ \E t \in Tasks :
       /\ tstate[t] = "none"
       /\ \E u \in Upstream(t) : tstate[u] \in {"failed", "upstream_failed"}
       /\ tstate' = [tstate EXCEPT ![t] = "upstream_failed"]
  /\ UNCHANGED <<artifacts, approvals, required, tries, xcom, fails, exits, dec, conf, chk, tp, arg, stg>>

(***************************************************************************)
(* Transform tasks: create_prd_artifact and the four transform operators   *)
(***************************************************************************)
\* The input artifact's id, the parentId of what the operator creates
ParentOf(t) == IF t = "create_prd" THEN 0 ELSE IdOf(arg[t])

TStartNoTypeCheck(t, mf, dag) ==
  LET n == tries[t] + 1
      ok == IF t = "create_prd" THEN conf ELSE Found(arg[t])
  IN /\ Ready(t, dag) /\ tp.pc = "idle"
     /\ tries' = [tries EXCEPT ![t] = n]
     /\ \E o \in (IF t = "create_prd" THEN {"ok"} ELSE ArgReadOutcomes(arg[t], mf)) :
          /\ Counted(o)
          /\ IF ok /\ o = "ok"
             THEN /\ tp' = [t |-> t, pc |-> "run", k |-> 0, created |-> <<>>,
                         pst |-> IF t = "create_prd" THEN "" ELSE artifacts[IdOf(arg[t])].status]
                  /\ tstate' = [tstate EXCEPT ![t] = "running"]
             ELSE /\ Raise(t, n)
                  /\ UNCHANGED tp
     /\ UNCHANGED <<artifacts, approvals, required, xcom, dec, conf, chk, arg, stg>>

\* Start of a try up to the first write.  create_prd_artifact raises
\* ValueError on empty content before any store call; an operator calls
\* get_artifact (and, on the right input type, the NodeExecutor processor)
\* and raises when get_artifact finds nothing, when the input type is wrong,
\* or when one of these processes exits non-zero.
TStart(t, mf, dag) ==
  LET n == tries[t] + 1
      ok == IF t = "create_prd" THEN conf
            ELSE Found(arg[t]) /\ artifacts[IdOf(arg[t])].type = InputType(t)
  IN /\ Ready(t, dag) /\ tp.pc = "idle"
     /\ tries' = [tries EXCEPT ![t] = n]
     /\ \E o \in (IF t = "create_prd" THEN {"ok"} ELSE ArgReadOutcomes(arg[t], mf)) :
          /\ Counted(o)
          /\ IF ok /\ o = "ok"
             THEN /\ tp' = [t |-> t, pc |-> "run", k |-> 0, created |-> <<>>,
                         pst |-> IF t = "create_prd" THEN "" ELSE artifacts[IdOf(arg[t])].status]
                  /\ tstate' = [tstate EXCEPT ![t] = "running"]
             ELSE /\ Raise(t, n)
                  /\ UNCHANGED tp
     /\ UNCHANGED <<artifacts, approvals, required, xcom, dec, conf, chk, arg, stg>>

\* The next store write of the running transform try (a failing
\* get_pipeline_stage_by_order read before it counts as a failed write);
\* after the last write the callable returns the created id(s).
TWrite(mf) ==
  LET t == tp.t
      ops == Writes(t)
      r == ApplyOp(ops[tp.k + 1], ParentOf(t), artifacts, approvals, tp.created)
  IN /\ tp.pc = "run"
     /\ \E o \in CallOutcomes(mf) :
          /\ Counted(o)
          /\ artifacts' = IF o = "fail" THEN artifacts ELSE r.arts
          /\ approvals' = IF o = "fail" THEN approvals ELSE r.apprs
          /\ IF o # "ok"
             THEN /\ Raise(t, tries[t])
                  /\ tp' = TpIdle
                  /\ UNCHANGED xcom
             ELSE IF tp.k + 1 = Len(ops)
             THEN /\ tstate' = [tstate EXCEPT ![t] = "success"]
                  /\ xcom' = [xcom EXCEPT ![t] = r.created]
                  /\ tp' = TpIdle
             ELSE /\ tp' = [tp EXCEPT !.k = @ + 1, !.created = r.created]
                  /\ UNCHANGED <<tstate, xcom>>
     /\ UNCHANGED <<required, tries, dec, conf, chk, arg, stg>>

(***************************************************************************)
(* ApprovalOperator                                                        *)
(***************************************************************************)
RECURSIVE CountNotRejected(_)
CountNotRejected(s) ==
  IF s = <<>> THEN 0
  ELSE (IF Head(s).status # "REJECTED" THEN 1 ELSE 0) + CountNotRejected(Tail(s))

\* approved_count = sum(1 for approval in approvals if status == 'APPROVED')
RECURSIVE CountApproved(_)
CountApproved(s) ==
  IF s = <<>> THEN 0
  ELSE (IF Head(s).status = "APPROVED" THEN 1 ELSE 0) + CountApproved(Tail(s))

\* get_approvals_for_artifact
ApprovalsFor(apprs, a) == SelectSeq(apprs, LAMBDA r : r.artifactId = a)

\* approved_count >= required_approvals
HasQuorum(apprs, a, req) == CountApproved(ApprovalsFor(apprs, a)) >= req

Quorum(a) == HasQuorum(approvals, a, required[artifacts[a].type])

\* Stakeholders whose records for artifact a are APPROVED
ApprovingStakeholders(apprs, a) ==
  {apprs[i].stakeholderId : i \in {j \in 1..Len(apprs) :
                                     apprs[j].artifactId = a /\ apprs[j].status = "APPROVED"}}

CStartNoStageApproves(t, mf, dag) ==
  LET n == tries[t] + 1
      a == IdOf(arg[t])
  IN /\ Ready(t, dag) /\ chk.pc = "idle"
     /\ tries' = [tries EXCEPT ![t] = n]
     /\ \E o \in ArgReadOutcomes(arg[t], mf) :
          /\ Counted(o)
          /\ IF ~Found(arg[t]) \/ o # "ok"
             THEN /\ Raise(t, n) /\ UNCHANGED <<chk, xcom>>
             ELSE IF required[artifacts[a].type] = NoStage
             THEN /\ chk' = [t |-> t, pc |-> "write", n |-> Cardinality(ApprovingStakeholders(approvals, a))]
                  /\ tstate' = [tstate EXCEPT ![t] = "running"]
                  /\ UNCHANGED xcom
             ELSE IF Quorum(a)
             THEN /\ chk' = [t |-> t, pc |-> "write",
                             n |-> Cardinality(ApprovingStakeholders(approvals, a))]
                  /\ tstate' = [tstate EXCEPT ![t] = "running"]
                  /\ UNCHANGED xcom
             ELSE /\ tstate' = [tstate EXCEPT ![t] = "success"]
                  /\ xcom' = [xcom EXCEPT ![t] = <<FALSE>>]
                  /\ UNCHANGED chk
     /\ UNCHANGED <<artifacts, approvals, required, dec, conf, tp, arg, stg>>

CStartRejectsBelowQuorum(t, mf, dag) ==
  LET n == tries[t] + 1
      ok == Found(arg[t]) /\ required[artifacts[IdOf(arg[t])].type] # NoStage
      a == IdOf(arg[t])
  IN /\ Ready(t, dag) /\ chk.pc = "idle"
     /\ tries' = [tries EXCEPT ![t] = n]
     /\ \E o \in ArgReadOutcomes(arg[t], mf) :
          /\ Counted(o)
          /\ IF ~ok \/ o # "ok"
             THEN /\ Raise(t, n) /\ UNCHANGED <<chk, xcom, artifacts>>
             ELSE IF Quorum(a)
             THEN /\ chk' = [t |-> t, pc |-> "write",
                             n |-> Cardinality(ApprovingStakeholders(approvals, a))]
                  /\ tstate' = [tstate EXCEPT ![t] = "running"]
                  /\ UNCHANGED <<xcom, artifacts>>
             ELSE /\ tstate' = [tstate EXCEPT ![t] = "success"]
                  /\ xcom' = [xcom EXCEPT ![t] = <<FALSE>>]
                  /\ artifacts' = [artifacts EXCEPT ![a].status = "REJECTED"]
                  /\ UNCHANGED chk
     /\ UNCHANGED <<approvals, required, dec, conf, tp, arg, stg>>

\* ApprovalOperator.execute up to the quorum test: get_artifact (ValueError
\* when missing), the stage scan (ValueError when no stage), then
\* get_approvals_for_artifact; below quorum it returns False.  n records how
\* many distinct stakeholders' APPROVED records the read saw.
CStart(t, mf, dag) ==
  LET n == tries[t] + 1
      ok == Found(arg[t]) /\ required[artifacts[IdOf(arg[t])].type] # NoStage
      a == IdOf(arg[t])
  IN /\ Ready(t, dag) /\ chk.pc = "idle"
     /\ tries' = [tries EXCEPT ![t] = n]
     /\ \E o \in ArgReadOutcomes(arg[t], mf) :
          /\ Counted(o)
          /\ IF ~ok \/ o # "ok"
             THEN /\ Raise(t, n) /\ UNCHANGED <<chk, xcom>>
             ELSE IF Quorum(a)
             THEN /\ chk' = [t |-> t, pc |-> "write",
                             n |-> Cardinality(ApprovingStakeholders(approvals, a))]
                  /\ tstate' = [tstate EXCEPT ![t] = "running"]
                  /\ UNCHANGED xcom
             ELSE /\ tstate' = [tstate EXCEPT ![t] = "success"]
                  /\ xcom' = [xcom EXCEPT ![t] = <<FALSE>>]
                  /\ UNCHANGED chk
     /\ UNCHANGED <<artifacts, approvals, required, dec, conf, tp, arg, stg>>

\* ApprovalOperator.execute on quorum: update_artifact(status APPROVED),
\* then return True
CWrite(mf) ==
  LET t == chk.t
      a == IdOf(arg[t])
  IN /\ chk.pc = "write"
     /\ \E o \in CallOutcomes(mf) :
          /\ Counted(o)
          /\ artifacts' = IF o = "fail" THEN artifacts
                          ELSE [artifacts EXCEPT ![a].status = "APPROVED"]
          /\ IF o = "ok"
             THEN /\ tstate' = [tstate EXCEPT ![t] = "success"]
                  /\ xcom' = [xcom EXCEPT ![t] = <<TRUE>>]
             ELSE /\ Raise(t, tries[t])
                  /\ UNCHANGED xcom
     /\ chk' = ChkIdle
     /\ UNCHANGED <<approvals, required, tries, dec, conf, tp, arg, stg>>

(***************************************************************************)
(* finalize_pipeline                                                       *)
(***************************************************************************)
\* finalize_pipeline: the key pulls (zod_schema_id, db_schema_id) return None
\* because generate_schemas pushes only its return value, so the first
\* get_artifact runs on "None", exits non-zero and the hook raises.  In the
\* DAG the task never becomes ready: check_zod_approvals and
\* check_db_approvals cannot succeed (their artifact_id is template text),
\* so the scheduler only ever marks it upstream_failed (Propagate).
FinalizeRun(dag) ==
  LET t == "finalize_pipeline"
      n == tries[t] + 1
  IN /\ Ready(t, dag)
     /\ tries' = [tries EXCEPT ![t] = n]
     /\ \E o \in ArgReadOutcomes(FinalizeArg, MaxFail) :
          /\ Counted(o)
          /\ Raise(t, n)
     /\ UNCHANGED <<artifacts, approvals, required, xcom, dec, conf, chk, tp, arg, stg>>

(***************************************************************************)
(* ManualApprovalOperator (not part of this DAG: stakeholders' decisions   *)
(* arrive from other tasks at any time).  Slots are used in order.         *)
(***************************************************************************)
DecideReadRejectFirst(d, mf) ==
  /\ dec[d].pc = "idle"
  /\ \A d2 \in 1..(d - 1) : dec[d2].pc # "idle"
  /\ \E a \in 1..(Len(artifacts) + 1), s \in Stakeholders, ap \in BOOLEAN, c \in Comments,
        o \in ReadOutcomes(mf) :
       LET mine == {i \in 1..Len(approvals) :
                      approvals[i].artifactId = a /\ approvals[i].stakeholderId = s}
       IN /\ Counted(o)
          /\ artifacts' = IF ~ap /\ a <= Len(artifacts)
                          THEN [artifacts EXCEPT ![a].status = "REJECTED"] ELSE artifacts
          /\ IF o = "fail"
             THEN dec' = [dec EXCEPT ![d] = [DecInit EXCEPT !.pc = "done", !.res = "raised"]]
             ELSE IF mine = {}
             THEN dec' = [dec EXCEPT ![d] = [DecInit EXCEPT !.pc = "done", !.res = "none"]]
             ELSE \E i \in mine :
                    dec' = [dec EXCEPT ![d] = [pc |-> "read", art |-> a, sh |-> s,
                              approve |-> ap, comment |-> c, apid |-> i,
                              seen |-> approvals[i].status, found |-> "", res |-> ""]]
  /\ UNCHANGED <<approvals, required, tstate, tries, xcom, conf, chk, tp, arg, stg>>

\* ManualApprovalOperator.execute: get_approvals_for_artifact and pick the
\* stakeholder's first record (none: log a warning and return).  seen
\* records the status the read returned.
DecideRead(d, mf) ==
  /\ dec[d].pc = "idle"
  /\ \A d2 \in 1..(d - 1) : dec[d2].pc # "idle"
  /\ \E a \in 1..(Len(artifacts) + 1), s \in Stakeholders, ap \in BOOLEAN, c \in Comments,
        o \in ReadOutcomes(mf) :
       LET mine == {i \in 1..Len(approvals) :
                      approvals[i].artifactId = a /\ approvals[i].stakeholderId = s}
       IN /\ Counted(o)
          /\ IF o = "fail"
             THEN dec' = [dec EXCEPT ![d] = [DecInit EXCEPT !.pc = "done", !.res = "raised"]]
             ELSE IF mine = {}
             THEN dec' = [dec EXCEPT ![d] = [DecInit EXCEPT !.pc = "done", !.res = "none"]]
             ELSE dec' = [dec EXCEPT ![d] = [pc |-> "read", art |-> a, sh |-> s,
                            approve |-> ap, comment |-> c,
                            apid |-> CHOOSE i \in mine : \A j \in mine : i <= j,
                            seen |-> approvals[CHOOSE i \in mine : \A j \in mine : i <= j].status,
                            found |-> "", res |-> ""]]
  /\ UNCHANGED <<artifacts, approvals, required, tstate, tries, xcom, conf, chk, tp, arg, stg>>

\* status = 'APPROVED' if self.approve else 'REJECTED'
DecisionStatus(ap) == IF ap THEN "APPROVED" ELSE "REJECTED"

UpdatedApprovalResetsOnReject(r, ap, c) ==
  [r EXCEPT !.status = IF ap THEN "APPROVED" ELSE "PENDING",
            !.comment = IF c # NoComment THEN c ELSE r.comment]

UpdatedApprovalAlwaysComment(r, ap, c) ==
  [r EXCEPT !.status = DecisionStatus(ap), !.comment = c]

\* update_data: status, plus comment only when one is given
UpdatedApproval(r, ap, c) ==
  [r EXCEPT !.status = DecisionStatus(ap),
            !.comment = IF c # NoComment THEN c ELSE r.comment]

DecideWriteApprovalNoReject(d, mf) ==
  LET e == dec[d]
  IN /\ e.pc = "read"
     /\ \E o \in CallOutcomes(mf) :
          /\ Counted(o)
          /\ approvals' = IF o = "fail" THEN approvals
                          ELSE [approvals EXCEPT ![e.apid] = UpdatedApproval(@, e.approve, e.comment)]
          /\ dec' = [dec EXCEPT ![d].pc = "done",
                                ![d].found = approvals[e.apid].status,
                                ![d].res = IF o = "ok" THEN "ok" ELSE "raised"]
     /\ UNCHANGED <<artifacts, required, tstate, tries, xcom, conf, chk, tp, arg, stg>>

\* ManualApprovalOperator.execute: hook.update_approval; a rejection goes on
\* to update_artifact.  found records the status the write overwrote.
DecideWriteApproval(d, mf) ==
  LET e == dec[d]
  IN /\ e.pc = "read"
     /\ \E o \in CallOutcomes(mf) :
          /\ Counted(o)
          /\ approvals' = IF o = "fail" THEN approvals
                          ELSE [approvals EXCEPT ![e.apid] = UpdatedApproval(@, e.approve, e.comment)]
          /\ dec' = [dec EXCEPT ![d].pc = IF o = "ok" /\ ~e.approve THEN "wrote" ELSE "done",
                                ![d].found = approvals[e.apid].status,
                                ![d].res = IF o # "ok" THEN "raised"
                                           ELSE IF e.approve THEN "ok" ELSE ""]
     /\ UNCHANGED <<artifacts, required, tstate, tries, xcom, conf, chk, tp, arg, stg>>

\* ManualApprovalOperator.execute: hook.update_artifact(status REJECTED)
DecideWriteArtifact(d, mf) ==
  LET e == dec[d]
  IN /\ e.pc = "wrote"
     /\ \E o \in CallOutcomes(mf) :
          /\ Counted(o)
          /\ artifacts' = IF o = "fail" THEN artifacts
                          ELSE [artifacts EXCEPT ![e.art].status = "REJECTED"]
          /\ dec' = [dec EXCEPT ![d].pc = "done", ![d].res = IF o = "ok" THEN "ok" ELSE "raised"]
     /\ UNCHANGED <<approvals, required, tstate, tries, xcom, conf, chk, tp, arg, stg>>

Decide ==
  \E d \in DecIds :
    \/ DecideRead(d, MaxFail)
    \/ DecideWriteApproval(d, MaxFail)
    \/ DecideWriteArtifact(d, MaxFail)

(***************************************************************************)
(* The DAG as written, from dag_run.conf, with stakeholder decisions.      *)
(***************************************************************************)
Init ==
  /\ artifacts = <<>>
  /\ approvals = <<>>
  /\ required \in {[ty \in Types |-> r] : r \in ReqChoices}
  /\ tstate = [t \in Tasks |-> "none"]
  /\ tries = [t \in Tasks |-> 0]
  /\ xcom = [t \in Tasks |-> <<>>]
  /\ fails = 0
  /\ exits = 0
  /\ dec = [d \in DecIds |-> DecInit]
  /\ conf \in BOOLEAN
  /\ chk = ChkIdle
  /\ tp = TpIdle
  /\ arg = [t \in Tasks |-> DagArg(t)]
  /\ stg = StgInit

\* Steps of the DAG's task instances and of the scheduler.  FinalizeRun is
\* never enabled here (its upstream checks never succeed); it is not listed.
DagStep ==
  \/ \E t \in TransformTasks : TStart(t, MaxFail, TRUE)
  \/ TWrite(MaxFail)
  \/ \E t \in CheckTasks : CStart(t, MaxFail, TRUE)
  \/ Propagate

Next == DagStep \/ Decide

Spec == Init /\ [][Next]_vars

\* Every task instance is eventually scheduled; decisions are not forced
DLSpec == Spec /\ WF_vars(DagStep)

(***************************************************************************)
(* A transform operator task run on an integer artifact_id, against the    *)
(* store the four operators leave after one pass, with one stakeholder     *)
(* decision interleaving and failures that can exhaust the retries.        *)
(***************************************************************************)
OTasks == {"process_prd", "generate_api", "generate_typespec", "generate_schemas"}

OChain ==
  <<[type |-> "PRD", parentId |-> 0, status |-> "PENDING_APPROVAL"],
    [type |-> "DDD_MODEL", parentId |-> 1, status |-> "PENDING_APPROVAL"],
    [type |-> "API_SPEC", parentId |-> 2, status |-> "PENDING_APPROVAL"],
    [type |-> "TYPESPEC", parentId |-> 3, status |-> "PENDING_APPROVAL"]>>

OApprovals ==
  <<[artifactId |-> 1, stakeholderId |-> 1, status |-> "PENDING", comment |-> NoComment],
    [artifactId |-> 2, stakeholderId |-> 1, status |-> "PENDING", comment |-> NoComment],
    [artifactId |-> 3, stakeholderId |-> 1, status |-> "PENDING", comment |-> NoComment],
    [artifactId |-> 3, stakeholderId |-> 2, status |-> "PENDING", comment |-> NoComment],
    [artifactId |-> 4, stakeholderId |-> 3, status |-> "PENDING", comment |-> NoComment]>>

OFail == MaxFail + 1

OInit ==
  /\ artifacts = OChain
  /\ approvals = OApprovals
  /\ required = [ty \in Types |-> 1]
  /\ tstate = [t \in Tasks |-> "none"]
  /\ tries = [t \in Tasks |-> 0]
  /\ xcom = [t \in Tasks |-> <<>>]
  /\ fails = 0
  /\ exits = 0
  /\ dec = [d \in DecIds |-> DecInit]
  /\ conf = TRUE
  /\ chk = ChkIdle
  /\ tp = TpIdle
  /\ \E t \in OTasks, i \in 1..(Len(OChain) + 1) :
       arg = [u \in Tasks |-> IF u = t THEN ToString(i) ELSE ""]
  /\ stg = StgInit

OStart == \E t \in OTasks : arg[t] # "" /\ TStart(t, OFail, FALSE)

ONext ==
  \/ OStart
  \/ TWrite(OFail)
  \/ DecideRead(1, OFail)
  \/ DecideWriteApproval(1, OFail)
  \/ DecideWriteArtifact(1, OFail)

OSpec == OInit /\ [][ONext]_vars

(***************************************************************************)
(* An ApprovalOperator task run on an integer artifact_id, against the     *)
(* same store, with stakeholder decisions interleaving; the stage table    *)
(* may lack the API_SPEC type.                                             *)
(***************************************************************************)
DCheck == "check_api_approvals"

DStages ==
  {[ty \in Types |-> r] : r \in ReqChoices}
    \cup {[ty \in Types |-> IF ty = "API_SPEC" THEN NoStage ELSE 1]}

DInit ==
  /\ artifacts = OChain
  /\ approvals = OApprovals
  /\ required \in DStages
  /\ tstate = [t \in Tasks |-> "none"]
  /\ tries = [t \in Tasks |-> 0]
  /\ xcom = [t \in Tasks |-> <<>>]
  /\ fails = 0
  /\ exits = 0
  /\ dec = [d \in DecIds |-> DecInit]
  /\ conf = TRUE
  /\ chk = ChkIdle
  /\ tp = TpIdle
  /\ \E i \in 1..(Len(OChain) + 1) :
       arg = [u \in Tasks |-> IF u = DCheck THEN ToString(i) ELSE ""]
  /\ stg = StgInit

DNext == CStart(DCheck, MaxFail, FALSE) \/ CWrite(MaxFail) \/ Decide

DSpec == DInit /\ [][DNext]_vars

\* The check task is eventually scheduled while it can run
DFSpec == DSpec /\ WF_vars(CStart(DCheck, MaxFail, FALSE) \/ CWrite(MaxFail))

(***************************************************************************)
(* The quorum check on an API_SPEC artifact whose approval records are any *)
(* sequence of records, for any requiredApprovals.                         *)
(***************************************************************************)
MaxQLen == 3
MaxReq == 3

QRecords == [artifactId : {3, 4}, stakeholderId : {1, 2},
             status : {"PENDING", "APPROVED", "REJECTED"}, comment : {NoComment}]

QInit ==
  /\ artifacts = OChain
  /\ approvals \in UNION {[1..n -> QRecords] : n \in 0..MaxQLen}
  /\ required \in {[ty \in Types |-> r] : r \in 1..MaxReq}
  /\ tstate = [t \in Tasks |-> "none"]
  /\ tries = [t \in Tasks |-> 0]
  /\ xcom = [t \in Tasks |-> <<>>]
  /\ fails = 0
  /\ exits = 0
  /\ dec = [d \in DecIds |-> DecInit]
  /\ conf = TRUE
  /\ chk = ChkIdle
  /\ tp = TpIdle
  /\ arg = [u \in Tasks |-> IF u = DCheck THEN "3" ELSE ""]
  /\ stg = StgInit

QNext == CStart(DCheck, MaxFail, FALSE) \/ CWrite(MaxFail)

QSpec == QInit /\ [][QNext]_vars

(***************************************************************************)
(* Stage resolution: the pipeline_stages rows by orderIndex (at most one   *)
(* row per index, "" for none) and the artifact type being checked.        *)
(***************************************************************************)
StageTypes == {"", "PRD", "API_SPEC"}

RECURSIVE ScanStagesNoBreak(_, _, _)
ScanStagesNoBreak(tbl, ty, i) ==
  IF i >= ScanLimit THEN NoStage
  ELSE LET rest == ScanStagesNoBreak(tbl, ty, i + 1)
       IN IF rest # NoStage THEN rest ELSE IF tbl[i] = ty THEN i ELSE NoStage

\* for i in range(6): get_pipeline_stage_by_order(i); break on the first
\* stage whose artifactType matches; None when the loop ends.
RECURSIVE ScanStages(_, _, _)
ScanStages(tbl, ty, i) ==
  IF i >= ScanLimit THEN NoStage
  ELSE IF tbl[i] = ty THEN i ELSE ScanStages(tbl, ty, i + 1)

SInit ==
  /\ artifacts = <<>>
  /\ approvals = <<>>
  /\ required = [ty \in Types |-> 1]
  /\ tstate = [t \in Tasks |-> "none"]
  /\ tries = [t \in Tasks |-> 0]
  /\ xcom = [t \in Tasks |-> <<>>]
  /\ fails = 0
  /\ exits = 0
  /\ dec = [d \in DecIds |-> DecInit]
  /\ conf = TRUE
  /\ chk = ChkIdle
  /\ tp = TpIdle
  /\ arg = [t \in Tasks |-> ""]
  /\ stg \in {[tbl |-> tb, ty |-> y, res |-> NoStage, done |-> FALSE] :
                tb \in [0..MaxOrder -> StageTypes], y \in StageTypes \ {""}}

ResolveStage ==
  /\ ~stg.done
  /\ stg' = [stg EXCEPT !.res = ScanStages(stg.tbl, stg.ty, 0), !.done = TRUE]
  /\ UNCHANGED <<artifacts, approvals, required, tstate, tries, xcom, fails, exits, dec, conf, chk, tp, arg>>

SSpec == SInit /\ [][ResolveStage]_vars

(***************************************************************************)
(* Claims: the DAG as written                                              *)
(***************************************************************************)
\* C25: with empty content the run creates no artifact and no approval; with
\* content, once the root task has succeeded there is exactly one root
\* artifact, without parent, and its approval is seeded.
RootCreationAsStated ==
  /\ ~conf => artifacts = <<>> /\ approvals = <<>>
  /\ tstate["create_prd"] = "success" =>
       /\ Len(artifacts) = 1
       /\ artifacts[1].parentId = 0
       /\ \E i \in 1..Len(approvals) : approvals[i].artifactId = 1

DomainModelsOf(p) ==
  {i \in 1..Len(artifacts) : artifacts[i].parentId = p /\ artifacts[i].type = "DDD_MODEL"}

RootVoteApproved ==
  \E i \in 1..Len(approvals) : approvals[i].artifactId = 1 /\ approvals[i].status = "APPROVED"

\* C13: in a run with content and no transient store failure, once the root's approval
\* is APPROVED the root eventually becomes APPROVED and exactly one
\* DDD_MODEL artifact with the root as parent exists.
RootScenarioAsStated ==
  (conf /\ [](fails = 0)) =>
    [](RootVoteApproved =>
         <>(Len(artifacts) >= 1 /\ artifacts[1].status = "APPROVED"
           /\ Cardinality(DomainModelsOf(1)) = 1))

AllApproved ==
  Len(approvals) > 0 /\ \A i \in 1..Len(approvals) : approvals[i].status = "APPROVED"

\* C22: when every task is scheduled fairly, no store call fails transiently
\* and every seeded approver approves, the run eventually completes
\* (finalize succeeds).
PipelineCompletes ==
  (conf /\ [](fails = 0) /\ <>[]AllApproved) => <>(tstate["finalize_pipeline"] = "success")

(***************************************************************************)
(* Claims: transform operators                                             *)
(***************************************************************************)
OTask == CHOOSE t \in OTasks : arg[t] # ""

\* The integer artifact_id the task was given
OArgId == CHOOSE i \in 1..(Len(OChain) + 1) : ToString(i) = arg[OTask]

OInputOk == OArgId <= Len(OChain) /\ OChain[OArgId].type = InputType(OTask)

\* C7: every (artifactId, stakeholderId) pair has at most one approval
\* record, also after a transform task is retried.
OneApprovalPerPair ==
  \A i, j \in 1..Len(approvals) :
    i < j => ~(/\ approvals[i].artifactId = approvals[j].artifactId
               /\ approvals[i].stakeholderId = approvals[j].stakeholderId)

RetriedSeedingWitness ==
  /\ tries[OTask] = 2 /\ tstate[OTask] = "success"
  /\ \E a \in (Len(OChain) + 1)..Len(artifacts) :
       /\ artifacts[a].type = Writes(OTask)[1].type
       /\ \E i \in 1..Len(approvals) : approvals[i].artifactId = a
       /\ a \notin {xcom[OTask][k] : k \in DOMAIN xcom[OTask]}

\* C8 (as stated): a parent artifact has at most one child of each type.
OneChildPerType ==
  \A i, j \in 1..Len(artifacts) :
    i < j => ~(/\ artifacts[i].parentId # 0
               /\ artifacts[i].parentId = artifacts[j].parentId
               /\ artifacts[i].type = artifacts[j].type)

TypeMismatchWritesNothing ==
  ~OInputOk =>
    /\ Len(artifacts) = Len(OChain)
    /\ Len(approvals) = Len(OApprovals)
    /\ tstate[OTask] # "success"

TypeMismatchWitness ==
  /\ OArgId <= Len(OChain) /\ ~OInputOk
  /\ tstate[OTask] = "failed"

\* Type of the artifact an artifact type is derived from
ParentType(ty) ==
  CASE ty = "DDD_MODEL"  -> "PRD"
    [] ty = "API_SPEC"   -> "DDD_MODEL"
    [] ty = "TYPESPEC"   -> "API_SPEC"
    [] ty = "ZOD_SCHEMA" -> "TYPESPEC"
    [] ty = "DB_SCHEMA"  -> "TYPESPEC"
    [] OTHER             -> ""

\* C19: only the root PRD has no parent; every artifact has a parent of the
\* type it is derived from; every artifact the task creates has the task's
\* input artifact as parent (so the schema siblings share the TypeSpec).
Lineage ==
  /\ \A a \in 1..Len(artifacts) :
       /\ (artifacts[a].parentId = 0) <=> (artifacts[a].type = "PRD")
       /\ artifacts[a].parentId # 0 =>
            artifacts[artifacts[a].parentId].type = ParentType(artifacts[a].type)
  /\ \A a \in (Len(OChain) + 1)..Len(artifacts) : artifacts[a].parentId = OArgId

LineageWitness ==
  /\ OTask = "generate_schemas" /\ tstate[OTask] = "success"
  /\ artifacts[xcom[OTask][1]].parentId = artifacts[xcom[OTask][2]].parentId

NumArts(t) == Cardinality({k \in 1..Len(Writes(t)) : Writes(t)[k].k = "art"})

NumApprs(t) == Len(Writes(t)) - NumArts(t)

\* C20 (as stated): once create_prd has succeeded, whatever crashed and was
\* replayed before, the store holds exactly what one clean pass of
\* create_prd_artifact writes.
ReplayMatchesCleanRun ==
  tstate["create_prd"] = "success" =>
    /\ Len(artifacts) = NumArts("create_prd")
    /\ Len(approvals) = NumApprs("create_prd")

\* C21 (as stated): when the input artifact becomes REJECTED while a transform
\* on it is in flight (its reads saw it not REJECTED), the transform creates
\* no child of it after the rejection.
NoChildOfRejectedParent ==
  [][(tp.pc = "run" /\ tp.pst # "REJECTED") =>
       \A a \in (Len(artifacts) + 1)..Len(artifacts') :
         artifacts'[a].parentId # 0 =>
           artifacts[artifacts'[a].parentId].status # "REJECTED"]_vars

\* Stakeholders each operator seeds for the artifact type it creates.
SeededFor(ty) ==
  CASE ty = "PRD"        -> {1}
    [] ty = "DDD_MODEL"  -> {1}
    [] ty = "API_SPEC"   -> {1, 2}
    [] ty = "TYPESPEC"   -> {3}
    [] ty = "ZOD_SCHEMA" -> {2, 4}
    [] ty = "DB_SCHEMA"  -> {3, 5}

Seeders(a) == {approvals[i].stakeholderId : i \in {j \in 1..Len(approvals) :
                                                   approvals[j].artifactId = a}}

QuorumIsApprovedCount ==
  LET cnt == Cardinality({i \in 1..Len(approvals) :
                            approvals[i].artifactId = 3 /\ approvals[i].status = "APPROVED"})
  IN tstate[DCheck] = "success" =>
       /\ (xcom[DCheck] = <<TRUE>>) <=> (cnt >= required["API_SPEC"])
       /\ (artifacts[3].status = "APPROVED") <=> (cnt >= required["API_SPEC"])

QuorumCheckWitness ==
  /\ tstate[DCheck] = "success"
  /\ artifacts[3].status = "APPROVED"
  /\ \E i, j \in 1..Len(approvals) :
       /\ approvals[i].artifactId = 3 /\ approvals[i].status = "REJECTED"
       /\ approvals[j].artifactId = 3 /\ approvals[j].status = "PENDING"

\* C4 (as stated): once an artifact has quorum it keeps it.
QuorumMonotone ==
  [][\A a \in 1..Len(artifacts) : Quorum(a) => Quorum(a)']_vars

\* C4 (amended): an artifact loses quorum only through a decision that
\* overwrites one of its APPROVED records with REJECTED.
QuorumLostOnlyByOverwrite ==
  [][\A a \in 1..Len(artifacts) :
       (Quorum(a) /\ ~Quorum(a)') =>
         \E i \in 1..Len(approvals) :
           /\ approvals[i].artifactId = a
           /\ approvals[i].status = "APPROVED"
           /\ approvals'[i].status = "REJECTED"]_vars

QuorumLostWitness ==
  \E d \in DecIds :
    /\ dec[d].pc = "done" /\ dec[d].apid # 0
    /\ dec[d].found = "APPROVED" /\ ~dec[d].approve
    /\ required[artifacts[dec[d].art].type] = 1
    /\ ~Quorum(dec[d].art)

\* C5 (as stated): an approval record that has left PENDING never changes.
DecidedApprovalImmutable ==
  [][\A i \in 1..Len(approvals) :
       approvals[i].status # "PENDING" => approvals'[i] = approvals[i]]_vars

\* C5 (amended): a decision on any record, decided or not, is written
\* without conflict: the status becomes the decision and the comment becomes
\* the decision's comment when it has one; nothing else changes a record.
DecisionAlwaysOverwrites ==
  [][\A i \in 1..Len(approvals) :
       approvals'[i] # approvals[i] =>
         \E d \in DecIds :
           /\ dec[d].pc = "read" /\ dec'[d].pc # "read" /\ dec[d].apid = i
           /\ approvals'[i].status = (IF dec[d].approve THEN "APPROVED" ELSE "REJECTED")
           /\ approvals'[i].comment =
                (IF dec[d].comment = NoComment THEN approvals[i].comment ELSE dec[d].comment)
           /\ approvals'[i].artifactId = approvals[i].artifactId
           /\ approvals'[i].stakeholderId = approvals[i].stakeholderId]_vars

RedecisionWitness ==
  \E d \in DecIds :
    /\ dec[d].pc = "done" /\ dec[d].apid # 0 /\ dec[d].res = "ok"
    /\ dec[d].found # "PENDING"
    /\ dec[d].found # approvals[dec[d].apid].status

\* C6 (as stated): of two interleaved decisions on the same record (both
\* read it while PENDING), at most one completes normally.
InterleavedAtMostOneSucceeds ==
  \A d1, d2 \in DecIds :
    (d1 # d2 /\ dec[d1].apid # 0 /\ dec[d1].apid = dec[d2].apid
     /\ dec[d1].seen = "PENDING" /\ dec[d2].seen = "PENDING") =>
       ~(dec[d1].res = "ok" /\ dec[d2].res = "ok")

\* C9 (as stated): APPROVED and REJECTED artifact statuses never change.
TerminalStatusesStay ==
  [][\A a \in 1..Len(artifacts) :
       artifacts[a].status \in {"APPROVED", "REJECTED"} =>
         artifacts'[a].status = artifacts[a].status]_vars

NoRejectedRecord(a) ==
  \A i \in 1..Len(approvals) :
    approvals[i].artifactId = a => approvals[i].status # "REJECTED"

\* C12 (as stated): for the API_SPEC artifact 3 whose stage needs 2
\* approvals, one APPROVED vote (and no REJECTED one) gives no quorum and
\* leaves it unapproved; once a second stakeholder has also approved, quorum
\* holds and the artifact eventually becomes APPROVED.
TwoVoteStageAsStated ==
  /\ [](required["API_SPEC"] = 2 /\ NoRejectedRecord(3)
        /\ CountApproved(ApprovalsFor(approvals, 3)) = 1
          => ~Quorum(3) /\ artifacts[3].status # "APPROVED")
  /\ ([](fails = 0) /\ required["API_SPEC"] = 2 /\ arg[DCheck] = "3") =>
       [](CountApproved(ApprovalsFor(approvals, 3)) = 2 /\ NoRejectedRecord(3)
            => Quorum(3) /\ <>(artifacts[3].status = "APPROVED"))

ApiCheckStep == tries'[DCheck] = tries[DCheck] + 1

ApiCheckKnown == Found(arg[DCheck])

\* C15 (as stated): a check on an artifact whose type has no stage fails
\* fatally at once (no retry) and leaves every status unchanged.
NoStageFatal ==
  [][(ApiCheckStep /\ ApiCheckKnown /\ required[artifacts[IdOf(arg[DCheck])].type] = NoStage) =>
       /\ tstate'[DCheck] = "failed"
       /\ artifacts' = artifacts]_vars

\* C15 (amended): such a check raises without changing any status or
\* succeeding; Airflow retries it once and the second failure fails the task.
NoStageRaisesAndIsRetried ==
  [][(ApiCheckStep /\ ApiCheckKnown /\ required[artifacts[IdOf(arg[DCheck])].type] = NoStage) =>
       /\ artifacts' = artifacts
       /\ tstate'[DCheck] =
            (IF tries[DCheck] + 1 <= Retries THEN "up_for_retry" ELSE "failed")]_vars

NoStageWitness ==
  /\ ApiCheckKnown /\ required[artifacts[IdOf(arg[DCheck])].type] = NoStage
  /\ tstate[DCheck] = "failed" /\ tries[DCheck] = 2
  /\ \E i \in 1..Len(approvals) :
       approvals[i].artifactId = IdOf(arg[DCheck]) /\ approvals[i].status = "APPROVED"

\* C18 (as stated): a check on an unknown artifact id and a decision with no
\* approval record both fail instead of completing, and change nothing.
UnknownIdsFail ==
  [][/\ \A d \in DecIds : ~(dec[d].pc = "idle" /\ dec'[d].res = "none")
     /\ (ApiCheckStep /\ ~ApiCheckKnown) =>
          tstate'[DCheck] # "success" /\ artifacts' = artifacts]_vars

\* C18 (amended): the check on an unknown artifact id raises (and is retried)
\* without changing the store; a decision with no approval record for the
\* artifact and stakeholder logs a warning and returns normally, changing
\* nothing.
UnknownIdsLeaveStoreUnchanged ==
  [][/\ \A d \in DecIds :
          (dec[d].pc = "idle" /\ dec'[d].res = "none") =>
            artifacts' = artifacts /\ approvals' = approvals
     /\ (ApiCheckStep /\ ~ApiCheckKnown) =>
          /\ tstate'[DCheck] # "success"
          /\ artifacts' = artifacts /\ approvals' = approvals]_vars

UnknownIdsWitness ==
  /\ ~ApiCheckKnown /\ tstate[DCheck] = "failed"
  /\ \E d \in DecIds : dec[d].res = "none"

StageIsLowestMatch ==
  stg.done =>
    LET m == {i \in 0..(ScanLimit - 1) : stg.tbl[i] = stg.ty}
    IN IF m = {} THEN stg.res = NoStage
       ELSE stg.res \in m /\ \A i \in m : stg.res <= i

StageScanWitness ==
  /\ stg.done
  /\ Cardinality({i \in 0..(ScanLimit - 1) : stg.tbl[i] = stg.ty}) >= 2
  /\ \E j \in ScanLimit..MaxOrder : stg.tbl[j] = stg.ty

====
